---- MODULE Spec2Model ----
(***************************************************************************)
(* Notification upsert / resolution engine of the billing back office.     *)
(* routes/notifications.js (src/unnamed/part_005), models/Notification.js, *)
(* models/Tax.js, models/Order.js (src/unnamed/part_008).                   *)
(*                                                                         *)
(* A stored document and a candidate payload are functions from field      *)
(* names to values; a field that is `undefined` in JavaScript is a field   *)
(* that is not in the function's DOMAIN.  Dates are whole days.            *)
(***************************************************************************)
EXTENDS Integers, Sequences, FiniteSets, TLC

\* ------------------------------------------------------------------ bounds
MaxId == 2
MaxNow == 31
MaxCoins == 20
MaxSpend == 200
MaxStock == 2
MaxSales == 2

\* ------------------------------------------------------- program constants
RetentionDays == 30
GstOverdueDays == 7
GstDueSoonDays == 3
GstHighValue == 10000
PayHighValue == 5000

Products == {"p1"}
Taxes == {"t1"}
Orders == {"o1"}
Procs == {"r1", "r2"}
Clients == {"c1", "c2"}
Ids == 1..MaxId
TickSteps == {RetentionDays, RetentionDays + 1}
StockLevels == {0, 2, 9}
MinLevels == {5}

VARIABLES store, nextId, now, taxStatus, orderStatus, last, procs, io,
          customers, coinReqs, stock, sales

\* the collections and requests of the coin wallet and of the sales counter
shop == <<customers, coinReqs, stock, sales>>

vars == <<store, nextId, now, taxStatus, orderStatus, last, procs, io, shop>>

\* ----------------------------------------------------------- field access
Has(d, k) == k \in DOMAIN d

\* object spread {...d, ...upd}: the keys of upd override those of d
Merge(upd, d) ==
  [k \in (DOMAIN upd) \cup (DOMAIN d) |-> IF k \in DOMAIN upd THEN upd[k] ELSE d[k]]

Restrict(d, ks) == [k \in (DOMAIN d) \cap ks |-> d[k]]

\* a !== b on a field of two objects
Differs(e, c, k) ==
  IF Has(c, k) THEN (~Has(e, k) \/ e[k] # c[k]) ELSE Has(e, k)

\* the paths of notificationSchema (strict mode drops every other key)
SchemaKeys ==
  {"type", "title", "message", "productId", "productName", "currentStock",
   "minStock", "orderId", "taxId", "invoiceNo", "billNumber", "invoiceNumber",
   "customerName", "customer", "customerPhone", "gstin", "amount",
   "paymentMode", "daysSince", "priority", "color", "icon", "isRead",
   "isResolved", "resolutionNote", "timestamp", "lastUpdated", "resolvedAt",
   "notificationHash", "status", "isHighValue"}

SchemaDefaults ==
  [priority |-> "medium", color |-> "gray", icon |-> "Bell",
   isRead |-> FALSE, isResolved |-> FALSE]

\* ------------------------------------------------------------ identity hash
\* String.prototype.toLowerCase on the strings that occur in identity fields
LowerMap ==
  [s \in {"GST Alert", "Payment Alert", "Out of Stock", "Low Stock",
          "System Alert", "INV-001", "Acme", "Unknown Customer", "N/A",
          "BILL0001", "29ABC"} |->
     CASE s = "GST Alert" -> "gst alert"
       [] s = "Payment Alert" -> "payment alert"
       [] s = "Out of Stock" -> "out of stock"
       [] s = "Low Stock" -> "low stock"
       [] s = "System Alert" -> "system alert"
       [] s = "INV-001" -> "inv-001"
       [] s = "Acme" -> "acme"
       [] s = "Unknown Customer" -> "unknown customer"
       [] s = "N/A" -> "n/a"
       [] s = "BILL0001" -> "bill0001"
       [] s = "29ABC" -> "29abc"]

toLowerCase(s) == IF s \in DOMAIN LowerMap THEN LowerMap[s] ELSE s

\* d.k || '' and d.k1 || d.k2 || ''
OrEmpty(d, k) == IF Has(d, k) THEN d[k] ELSE ""
Or2Empty(d, k1, k2) ==
  IF Has(d, k1) /\ d[k1] # "" THEN d[k1] ELSE OrEmpty(d, k2)

\* faulty variant: the title takes part in the digest
generateNotificationHashWithTitle(d) ==
  << toLowerCase(OrEmpty(d, "type")), toLowerCase(OrEmpty(d, "productId")),
     toLowerCase(OrEmpty(d, "orderId")), toLowerCase(OrEmpty(d, "taxId")),
     toLowerCase(Or2Empty(d, "invoiceNo", "invoiceNumber")),
     toLowerCase(Or2Empty(d, "customerName", "customer")),
     toLowerCase(OrEmpty(d, "billNumber")),
     <<toLowerCase(OrEmpty(d, "gstin")), OrEmpty(d, "title")>> >>

\* The digest is taken over the lower-cased string
\* type_productId_orderId_taxId_invoiceNo_customerName_billNumber_gstin;
\* the model keeps that string as the tuple of its eight parts (md5 is
\* treated as injective).
generateNotificationHash(d) ==
  << toLowerCase(OrEmpty(d, "type")), toLowerCase(OrEmpty(d, "productId")),
     toLowerCase(OrEmpty(d, "orderId")), toLowerCase(OrEmpty(d, "taxId")),
     toLowerCase(Or2Empty(d, "invoiceNo", "invoiceNumber")),
     toLowerCase(Or2Empty(d, "customerName", "customer")),
     toLowerCase(OrEmpty(d, "billNumber")), toLowerCase(OrEmpty(d, "gstin")) >>

\* notificationData.notificationHash || generateNotificationHash(notificationData)
HashOf(d) ==
  IF Has(d, "notificationHash") THEN d.notificationHash
  ELSE generateNotificationHash(d)

\* --------------------------------------------------------- store primitives
ById(S, i) == {d \in S : d.id = i}

\* Notification.findOne({notificationHash: h, timestamp: {$gte: t - 30 days}})
\* (the unique index leaves at most one match; with several, any of them)
FindRecent(S, h, t) ==
  {d \in S : /\ Has(d, "notificationHash") /\ d.notificationHash = h
             /\ d.timestamp >= t - RetentionDays}

\* faulty variant: the recovery read finds nothing
RecoverFindNothing(S, h) == {}

\* Notification.findOne({notificationHash: error.keyValue.notificationHash})
RecoverFind(S, h) ==
  {d \in S : Has(d, "notificationHash") /\ d.notificationHash = h}

\* faulty variant: the collection without its unique index
DuplicateKeyIndexOff(S, h) == FALSE

\* the unique sparse index on notificationHash rejects the insert (E11000)
DuplicateKey(S, h) ==
  \E d \in S : Has(d, "notificationHash") /\ d.notificationHash = h

\* ------------------------------------------------------------ upsert pieces
TrackedFields ==
  {"currentStock", "amount", "daysSince", "priority", "type", "message",
   "title", "isRead", "isResolved", "color", "paymentMode", "customerPhone",
   "invoiceNumber"}

\* faulty variant: the comparison also looks at the timestamp
hasChangesWithTimestamp(e, c) ==
  \E k \in TrackedFields \cup {"timestamp"} : Differs(e, c, k)

\* const hasChanges = existing.f !== data.f || ...
hasChanges(e, c) == \E k \in TrackedFields : Differs(e, c, k)

\* new Notification({...data, notificationHash, timestamp, lastUpdated,
\*                   createdBy, isResolved: false})
NewDoc(c, h, i, t) ==
  Merge([id |-> i, notificationHash |-> h, timestamp |-> t, lastUpdated |-> t,
         isResolved |-> FALSE],
        Merge(Restrict(c, SchemaKeys), SchemaDefaults))

\* faulty variant: the update recomputes the hash from the payload
UpdatedDocRehashed(cur, snap, c, t) ==
  Merge([lastUpdated |-> t, notificationHash |-> generateNotificationHash(c),
         timestamp |-> IF Has(c, "preserveTimestamp") /\ c.preserveTimestamp
                       THEN snap.timestamp ELSE t],
        Merge(Restrict(c, SchemaKeys), cur))

\* findOneAndUpdate({_id}, {...data, lastUpdated, updatedBy, timestamp})
UpdatedDoc(cur, snap, c, t) ==
  Merge([lastUpdated |-> t,
         timestamp |-> IF Has(c, "preserveTimestamp") /\ c.preserveTimestamp
                       THEN snap.timestamp ELSE t],
        Merge(Restrict(c, SchemaKeys), cur))

\* faulty variant: every event goes out as notification_updated
EvAlwaysUpdated(kind, i) == [kind |-> "notification_updated", id |-> i]

\* io.emit(kind, {notification: <the record with this id>, action, ...})
Ev(kind, i) == [kind |-> kind, id |-> i]

\* ------------------------------------------------------------------ upsert
\* upsertNotification run without interruption.  The result carries the new
\* store, the returned action and record id, the lookup's match, the events
\* emitted on io and the number of store writes.
UpsertResult(S, nid, action, i, F, evs, w) ==
  [store |-> S, nextId |-> nid, action |-> action, id |-> i, found |-> F,
   events |-> evs, writes |-> w]

\* faulty variant: the unchanged branch announces the record all the same
UnchangedAnnounced(S, nid, e, F) ==
  UpsertResult(S, nid, "unchanged", e.id, F,
               <<Ev("notification_updated", e.id)>>, 0)

\* return { action: 'unchanged', notification: existingNotification }
Unchanged(S, nid, e, F) ==
  UpsertResult(S, nid, "unchanged", e.id, F, <<>>, 0)

upsertNotification(S, nid, c, t) ==
  LET h == HashOf(c)
      F == FindRecent(S, h, t)
  IN IF F # {}
     THEN LET e == CHOOSE d \in F : TRUE
          IN IF hasChanges(e, c)
             THEN UpsertResult((S \ {e}) \cup {UpdatedDoc(e, e, c, t)}, nid,
                               "updated", e.id, F,
                               <<Ev("notification_updated", e.id)>>, 1)
             ELSE Unchanged(S, nid, e, F)
     ELSE IF DuplicateKey(S, h)
          THEN LET R == RecoverFind(S, h)
               IN IF R # {}
                  THEN UpsertResult(S, nid, "recovered",
                                    (CHOOSE d \in R : TRUE).id, F, <<>>, 0)
                  ELSE UpsertResult(S, nid, "error", 0, F, <<>>, 0)
          ELSE UpsertResult(S \cup {NewDoc(c, h, nid, t)}, nid + 1,
                            "created", nid, F,
                            <<Ev("notification_created", nid)>>, 1)

\* ------------------------------------------------------------- source data
\* TaxEntry and Order documents; only their status changes in the model.
TaxEntry ==
  [t \in Taxes |->
     [invoiceNo |-> "INV-001", customer |-> "Acme", gstin |-> "29ABC",
      totalTax |-> 500, date |-> 0]]

OrderDoc ==
  [o \in Orders |->
     [billNumber |-> "BILL0001", customerName |-> "Acme",
      customerPhone |-> "98", totalAmount |-> 700, paymentMode |-> "Cash",
      date |-> 0]]

TaxStatuses == {"Pending", "Paid"}
PaymentStatuses == {"Pending", "Paid"}

\* status: {$regex: /pending/i} or /draft/i
TaxIsPending(s) == s \in {"Pending", "Draft"}
\* status: {$regex: /paid|completed|done/i}
TaxIsPaid(s) == s \in {"Paid", "Completed", "Done"}
\* paymentStatus: {$in: ['pending', 'Pending', ..., 'OVERDUE']}
OrderIsPending(s) == s \in {"Pending", "Due", "Overdue"}
OrderIsPaid(s) == s \in {"Paid", "Completed", "Done"}

\* a message template with its interpolated values
Msg(kind, n, a, b, m) == <<kind, n, a, b, m>>

\* alertTitle and priority of a GST alert by the age of the entry in days
GstAlertTitle(daysSinceEntry) ==
  IF daysSinceEntry >= GstOverdueDays THEN "GST Payment Overdue!"
  ELSE IF daysSinceEntry >= GstDueSoonDays THEN "GST Payment Due Soon"
  ELSE "GST Payment Pending"

\* faulty variant: the amount has no say in the priority
GstPriorityIgnoringValue(daysSinceEntry, isHighValue) ==
  IF daysSinceEntry >= GstOverdueDays THEN "high" ELSE "medium"

\* priority: isHighValue ? 'high' : priority
GstPriority(daysSinceEntry, isHighValue) ==
  IF isHighValue THEN "high"
  ELSE IF daysSinceEntry >= GstOverdueDays THEN "high" ELSE "medium"

\* the notificationData the scan builds for the tax entry tax with _id t
GSTDataOf(tax, t, st, tnow) ==
  LET daysSinceEntry == tnow - tax.date
      taxAmount == tax.totalTax
      isHighValue == taxAmount >= GstHighValue
      color == IF daysSinceEntry >= GstOverdueDays THEN "red"
               ELSE IF daysSinceEntry >= GstDueSoonDays THEN "orange" ELSE "blue"
      who == IF tax.customer = "" THEN "Unknown" ELSE tax.customer
      prefix == IF daysSinceEntry >= GstOverdueDays
                THEN Msg("GST payment overdue for days", daysSinceEntry, tax.invoiceNo, who, 0)
                ELSE IF daysSinceEntry >= GstDueSoonDays
                THEN Msg("GST payment due in days", GstOverdueDays - daysSinceEntry, tax.invoiceNo, who, 0)
                ELSE Msg("GST payment pending", daysSinceEntry, tax.invoiceNo, who, 0)
  IN [type |-> "GST Alert", title |-> GstAlertTitle(daysSinceEntry),
      message |-> prefix,
      taxId |-> t, invoiceNo |-> tax.invoiceNo,
      customer |-> IF tax.customer = "" THEN "Unknown Customer" ELSE tax.customer,
      gstin |-> IF tax.gstin = "" THEN "N/A" ELSE tax.gstin,
      amount |-> taxAmount, isHighValue |-> isHighValue,
      daysSince |-> daysSinceEntry, status |-> st,
      timestamp |-> tax.date, isRead |-> FALSE, color |-> color,
      icon |-> "FileText",
      priority |-> GstPriority(daysSinceEntry, isHighValue),
      isResolved |-> FALSE]

GSTData(t, st, tnow) == GSTDataOf(TaxEntry[t], t, st, tnow)

PaymentData(o, st, tnow) ==
  LET order == OrderDoc[o]
      daysSinceOrder == tnow - order.date
      orderAmount == order.totalAmount
      isHighValue == orderAmount >= PayHighValue
      alertTitle ==
        IF daysSinceOrder >= 7
        THEN (IF isHighValue THEN "High-Value Payment Severely Overdue!" ELSE "Payment Severely Overdue!")
        ELSE IF daysSinceOrder >= 3
        THEN (IF isHighValue THEN "High-Value Payment Overdue" ELSE "Payment Overdue")
        ELSE (IF isHighValue THEN "High-Value Payment Pending" ELSE "Payment Pending")
      priority == IF daysSinceOrder >= 7 THEN "high"
                  ELSE IF daysSinceOrder >= 3
                  THEN (IF isHighValue THEN "high" ELSE "medium")
                  ELSE "medium"
      color == IF daysSinceOrder >= 7 THEN "red"
               ELSE IF daysSinceOrder >= 3 THEN "orange" ELSE "blue"
      kind == IF daysSinceOrder >= 7 THEN "Payment severely overdue for days"
              ELSE IF daysSinceOrder >= 3 THEN "Payment overdue for days"
              ELSE "Payment pending for days"
  IN [type |-> "Payment Alert", title |-> alertTitle,
      message |-> Msg(kind, daysSinceOrder, order.customerName, "", orderAmount),
      orderId |-> o, billNumber |-> order.billNumber,
      customerName |-> order.customerName,
      customerPhone |-> order.customerPhone, amount |-> orderAmount,
      paymentMode |-> order.paymentMode, invoiceNumber |-> order.billNumber,
      paymentStatus |-> st, isHighValue |-> isHighValue,
      daysSince |-> daysSinceOrder, timestamp |-> order.date,
      isRead |-> FALSE, color |-> color,
      icon |-> IF isHighValue THEN "DollarSign" ELSE "CreditCard",
      priority |-> priority, isResolved |-> FALSE]

\* the identity the resolution sweeps look for
GSTSweepHash(t) == generateNotificationHash([type |-> "GST Alert", taxId |-> t])
PaymentSweepHash(o) == generateNotificationHash([type |-> "Payment Alert", orderId |-> o])

GstNote(s) == IF s = "Paid" THEN "GST payment marked as Paid" ELSE "GST payment marked as other"
PaymentNote(s) == IF s = "Paid" THEN "Payment marked as Paid" ELSE "Payment marked as other"

\* ---------------------------------------------------------- alert generators
\* Running state of a generator: the store, the id counter, the events
\* emitted, the number of store writes and the alerts array.
GenState(S, nid, evs, w, al) ==
  [store |-> S, nextId |-> nid, events |-> evs, writes |-> w, alerts |-> al]

AfterUpsert(g, r) ==
  GenState(r.store, r.nextId, g.events \o r.events, g.writes + r.writes,
           IF r.action \in {"created", "updated"}
           THEN g.alerts \cup ById(r.store, r.id) ELSE g.alerts)

RECURSIVE SeqOfSet(_)
SeqOfSet(X) ==
  IF X = {} THEN <<>>
  ELSE LET x == CHOOSE y \in X : TRUE IN <<x>> \o SeqOfSet(X \ {x})

\* Notification.find({notificationHash, isResolved: false}), updateMany on the
\* same filter, and one notification_resolved event per document found
ResolveSweep(g, h, note, t) ==
  LET existingAlerts ==
        {d \in g.store : /\ Has(d, "notificationHash") /\ d.notificationHash = h
                         /\ ~d.isResolved}
      resolved ==
        {Merge([isResolved |-> TRUE, isRead |-> TRUE, resolutionNote |-> note,
                lastUpdated |-> t], d)
           : d \in existingAlerts}
      evs == [i \in 1..Len(SeqOfSet(existingAlerts)) |->
                Ev("notification_resolved", SeqOfSet(existingAlerts)[i].id)]
  IN IF existingAlerts # {}
     THEN GenState((g.store \ existingAlerts) \cup resolved, g.nextId,
                   g.events \o evs, g.writes + Cardinality(existingAlerts),
                   g.alerts)
     ELSE g

RECURSIVE ScanGST(_, _, _, _)
ScanGST(todo, g, ts, t) ==
  IF todo = {} THEN g
  ELSE LET x == CHOOSE y \in todo : TRUE
           r == upsertNotification(g.store, g.nextId, GSTData(x, ts[x], t), t)
       IN ScanGST(todo \ {x}, AfterUpsert(g, r), ts, t)

RECURSIVE SweepGST(_, _, _, _)
SweepGST(todo, g, ts, t) ==
  IF todo = {} THEN g
  ELSE LET x == CHOOSE y \in todo : TRUE
       IN SweepGST(todo \ {x},
                   ResolveSweep(g, GSTSweepHash(x), GstNote(ts[x]), t), ts, t)

generateGSTAlerts(S, nid, ts, t) ==
  LET scanned == ScanGST({x \in Taxes : TaxIsPending(ts[x])},
                         GenState(S, nid, <<>>, 0, {}), ts, t)
  IN SweepGST({x \in Taxes : TaxIsPaid(ts[x])}, scanned, ts, t)

RECURSIVE ScanPayment(_, _, _, _)
ScanPayment(todo, g, os, t) ==
  IF todo = {} THEN g
  ELSE LET x == CHOOSE y \in todo : TRUE
           r == upsertNotification(g.store, g.nextId, PaymentData(x, os[x], t), t)
       IN ScanPayment(todo \ {x}, AfterUpsert(g, r), os, t)

RECURSIVE SweepPayment(_, _, _, _)
SweepPayment(todo, g, os, t) ==
  IF todo = {} THEN g
  ELSE LET x == CHOOSE y \in todo : TRUE
       IN SweepPayment(todo \ {x},
                       ResolveSweep(g, PaymentSweepHash(x), PaymentNote(os[x]), t),
                       os, t)

generatePaymentAlerts(S, nid, os, t) ==
  LET scanned == ScanPayment({x \in Orders : OrderIsPending(os[x])},
                             GenState(S, nid, <<>>, 0, {}), os, t)
  IN SweepPayment({x \in Orders : OrderIsPaid(os[x])}, scanned, os, t)

\* notificationMap.has(hash) / notificationMap.set(hash, n): first one wins
RECURSIVE MapAddAll(_, _)
MapAddAll(M, ds) ==
  IF ds = {} THEN M
  ELSE LET d == CHOOSE y \in ds : TRUE
       IN MapAddAll(IF \E m \in M : HashOf(m) = HashOf(d) THEN M ELSE M \cup {d},
                    ds \ {d})

\* ------------------------------------------------------------------ history
\* The last completed request: what was asked, what was answered, the events
\* it emitted on io, the number of store writes it made, the list it returned
\* (GET /) and the day it ran.
Done(op, cand, action, i, evs, w, fd) ==
  [op |-> op, cand |-> cand, action |-> action, id |-> i,
   events |-> evs, writes |-> w, feed |-> fd, at |-> now]

NoCand == <<>>

\* ------------------------------------------------------------ request inputs
StockKinds == {"Low Stock", "Out of Stock"}

OutOfStockData(p, cur, min) ==
  [type |-> "Out of Stock", title |-> "Out of Stock Alert",
   message |-> Msg("is completely out of stock", 0, p, "", 0),
   productName |-> p, productId |-> p, currentStock |-> cur, minStock |-> min,
   priority |-> "high", color |-> "red", icon |-> "Package"]

LowStockData(p, cur, min) ==
  [type |-> "Low Stock",
   title |-> IF cur <= 2 THEN "Critical Stock Alert" ELSE "Low Stock Warning",
   message |-> Msg(IF cur <= 2 THEN "stock is critically low" ELSE "stock is low",
                   cur, p, "", 0),
   productName |-> p, productId |-> p, currentStock |-> cur, minStock |-> min,
   priority |-> IF cur <= 2 THEN "high" ELSE IF cur <= 5 THEN "medium" ELSE "low",
   color |-> IF cur <= 2 THEN "red" ELSE "orange", icon |-> "Package"]

\* bodies other pages post to /update-from-page
PageLowStock(p, cur, min) ==
  Merge([isRead |-> FALSE, isResolved |-> FALSE], LowStockData(p, cur, min))

PageHashed(t) ==
  [type |-> "GST Alert", title |-> "GST reminder",
   message |-> Msg("GST reminder", 0, t, "", 0),
   taxId |-> t, invoiceNo |-> TaxEntry[t].invoiceNo,
   notificationHash |-> GSTSweepHash(t),
   priority |-> "medium", color |-> "blue",
   isRead |-> FALSE, isResolved |-> FALSE]

PageNoType == [title |-> "Notice"]

PageStockInputs ==
  {PageLowStock(p, 2, m) : p \in Products, m \in {5, 8}} \cup {PageNoType}

PageTaxInputs == {PageHashed(t) : t \in Taxes}

\* -------------------------------------------------------------------- Init
\* the socket.io server: the sessions connected, those that joined the
\* 'notifications' room, the packets queued for each client's connection,
\* what each client received (and in which session), every publication with
\* the sessions connected when it was made, and the sessions opened so far.
\* No client is connected while the request handlers below run.
IoInit ==
  [conn |-> {}, room |-> {}, out |-> [c \in Clients |-> {}],
   got |-> [c \in Clients |-> {}], pub |-> {}, opened |-> [c \in Clients |-> 0]]

\* ------------------------------------------------------- wallet and counter
Customers == {"k1"}
SaleProducts == {"a", "b"}

\* customerSchema's defaults for a new customer
NewCustomer ==
  [coins |-> 0, coinsEarned |-> 0, coinsRedeemed |-> 0, totalPurchases |-> 0,
   membershipTier |-> "Bronze"]

CoinIdle == [pc |-> "idle", rq |-> <<>>, snap |-> NewCustomer, res |-> "none"]

\* one customer without coins, no request in flight, a stocked counter
ShopInit ==
  /\ customers = [k \in Customers |-> NewCustomer]
  /\ coinReqs = [p \in Procs |-> CoinIdle]
  /\ stock = [q \in SaleProducts |-> MaxStock]
  /\ sales = {}

Idle == [pc |-> "idle", cand |-> NoCand, snap |-> {}, res |-> "none", rid |-> 0]

Init ==
  /\ store = {}
  /\ nextId = 1
  /\ now = 0
  /\ taxStatus = [t \in Taxes |-> "Pending"]
  /\ orderStatus = [o \in Orders |-> "Pending"]
  /\ last = Done("none", NoCand, "none", 0, <<>>, 0, {})
  /\ procs = [p \in Procs |-> Idle]
  /\ io = IoInit
  /\ ShopInit

\* the same with the tax entries found pending or already paid
InitConc ==
  /\ store = {}
  /\ nextId = 1
  /\ now = 0
  /\ taxStatus \in [Taxes -> TaxStatuses]
  /\ orderStatus = [o \in Orders |-> "Pending"]
  /\ last = Done("none", NoCand, "none", 0, <<>>, 0, {})
  /\ procs = [p \in Procs |-> Idle]
  /\ io = IoInit
  /\ ShopInit

\* ------------------------------------------------- request handlers (whole)
\* a handler's await upsertNotification(data, req.io, source)
CallUpsert(op, c) ==
  LET r == upsertNotification(store, nextId, c, now)
  IN /\ r.nextId <= MaxId + 1
     /\ store' = r.store
     /\ nextId' = r.nextId
     /\ last' = Done(op, c, r.action, r.id, r.events, r.writes, {})
     /\ UNCHANGED <<now, taxStatus, orderStatus, procs, io, shop>>

\* POST /update-from-page
PostUpdateFromPage(c, preserve) ==
  IF ~Has(c, "type")
  THEN /\ last' = Done("page", c, "rejected_400", 0, <<>>, 0, {})
       /\ UNCHANGED <<store, nextId, now, taxStatus, orderStatus, procs, io, shop>>
  ELSE CallUpsert("page", Merge([preserveTimestamp |-> preserve], c))

\* POST /check-stock
PostCheckStock(p, cur, min) ==
  IF cur = 0
  THEN CallUpsert("check-stock", OutOfStockData(p, cur, min))
  ELSE IF cur > 0 /\ cur <= min
  THEN CallUpsert("check-stock", LowStockData(p, cur, min))
  ELSE LET existingNotifications ==
             {d \in store : /\ Has(d, "productId") /\ d.productId = p
                            /\ d.type \in StockKinds /\ ~d.isResolved}
           deleted ==
             {d \in store : /\ Has(d, "productId") /\ d.productId = p
                            /\ d.type \in StockKinds}
           evs == [i \in 1..Len(SeqOfSet(existingNotifications)) |->
                     Ev("notification_deleted", SeqOfSet(existingNotifications)[i].id)]
       IN IF existingNotifications # {}
          THEN /\ store' = store \ deleted
               /\ last' = Done("check-stock", NoCand, "alerts_deleted", 0,
                               evs \o <<Ev("stock_updated", 0)>>,
                               Cardinality(deleted), {})
               /\ UNCHANGED <<nextId, now, taxStatus, orderStatus, procs, io, shop>>
          ELSE /\ last' = Done("check-stock", NoCand, "no_alert_needed", 0,
                               <<>>, 0, {})
               /\ UNCHANGED <<store, nextId, now, taxStatus, orderStatus, procs, io, shop>>

\* GET /
GetFeed ==
  LET storedNotifications == {d \in store : ~d.isResolved}
      gst == generateGSTAlerts(store, nextId, taxStatus, now)
      pay == generatePaymentAlerts(gst.store, gst.nextId, orderStatus, now)
      notificationMap ==
        MapAddAll(MapAddAll(MapAddAll({}, storedNotifications), gst.alerts),
                  pay.alerts)
      uniqueNotifications == {d \in notificationMap : ~d.isResolved}
  IN /\ pay.nextId <= MaxId + 1
     /\ store' = pay.store
     /\ nextId' = pay.nextId
     /\ last' = Done("feed", NoCand, "ok", 0, gst.events \o pay.events,
                     gst.writes + pay.writes,
                     {d.id : d \in uniqueNotifications})
     /\ UNCHANGED <<now, taxStatus, orderStatus, procs, io, shop>>

\* PUT /:id/read
PutRead(i) ==
  IF ById(store, i) = {}
  THEN /\ last' = Done("read", NoCand, "not_found", i, <<>>, 0, {})
       /\ UNCHANGED <<store, nextId, now, taxStatus, orderStatus, procs, io, shop>>
  ELSE LET d == CHOOSE x \in ById(store, i) : TRUE
       IN /\ store' = (store \ {d})
                        \cup {Merge([isRead |-> TRUE, lastUpdated |-> now], d)}
          /\ last' = Done("read", NoCand, "ok", i,
                          <<Ev("notification_updated", i)>>, 1, {})
          /\ UNCHANGED <<nextId, now, taxStatus, orderStatus, procs, io, shop>>

\* PUT /:id/resolve
PutResolve(i) ==
  IF ById(store, i) = {}
  THEN /\ last' = Done("resolve", NoCand, "not_found", i, <<>>, 0, {})
       /\ UNCHANGED <<store, nextId, now, taxStatus, orderStatus, procs, io, shop>>
  ELSE LET d == CHOOSE x \in ById(store, i) : TRUE
       IN /\ store' = (store \ {d})
                        \cup {Merge([isResolved |-> TRUE, isRead |-> TRUE,
                                     resolutionNote |-> "Manually resolved",
                                     lastUpdated |-> now], d)}
          /\ last' = Done("resolve", NoCand, "ok", i,
                          <<Ev("notification_resolved", i)>>, 1, {})
          /\ UNCHANGED <<nextId, now, taxStatus, orderStatus, procs, io, shop>>

\* DELETE /:id
DeleteById(i) ==
  IF ById(store, i) = {}
  THEN /\ last' = Done("delete", NoCand, "not_found", i, <<>>, 0, {})
       /\ UNCHANGED <<store, nextId, now, taxStatus, orderStatus, procs, io, shop>>
  ELSE /\ store' = store \ ById(store, i)
       /\ last' = Done("delete", NoCand, "ok", i,
                       <<Ev("notification_deleted", i)>>, 1, {})
       /\ UNCHANGED <<nextId, now, taxStatus, orderStatus, procs, io, shop>>

\* PUT /api/tax/entries/:id with a new status
SetTaxStatus(t, s) ==
  /\ taxStatus[t] # s
  /\ taxStatus' = [taxStatus EXCEPT ![t] = s]
  /\ last' = Done("source", NoCand, "ok", 0, <<>>, 0, {})
  /\ UNCHANGED <<store, nextId, now, orderStatus, procs, io, shop>>

\* PATCH /api/orders/:id/status
SetOrderStatus(o, s) ==
  /\ orderStatus[o] # s
  /\ orderStatus' = [orderStatus EXCEPT ![o] = s]
  /\ last' = Done("source", NoCand, "ok", 0, <<>>, 0, {})
  /\ UNCHANGED <<store, nextId, now, taxStatus, procs, io, shop>>

\* time passes
Tick(d) ==
  /\ now + d <= MaxNow
  /\ now' = now + d
  /\ UNCHANGED <<store, nextId, taxStatus, orderStatus, last, procs, io, shop>>

\* requests of the stock pages
NextStock ==
  \/ \E c \in PageStockInputs, preserve \in BOOLEAN : PostUpdateFromPage(c, preserve)
  \/ \E p \in Products, cur \in StockLevels, min \in MinLevels : PostCheckStock(p, cur, min)
  \/ \E i \in Ids : PutRead(i)
  \/ \E i \in Ids : PutResolve(i)
  \/ \E i \in Ids : DeleteById(i)
  \/ \E d \in TickSteps : Tick(d)

SpecStock == Init /\ [][NextStock]_vars

\* requests of the notification page while tax entries and orders change
NextFeed ==
  \/ GetFeed
  \/ \E i \in Ids : PutRead(i)
  \/ \E i \in Ids : PutResolve(i)
  \/ \E i \in Ids : DeleteById(i)
  \/ \E t \in Taxes, s \in TaxStatuses : SetTaxStatus(t, s)
  \/ \E o \in Orders, s \in PaymentStatuses : SetOrderStatus(o, s)
  \/ \E d \in TickSteps : Tick(d)

SpecFeed == Init /\ [][NextFeed]_vars

\* feed reads next to a tax page that posts its own GST alerts
NextTaxPage ==
  \/ GetFeed
  \/ \E c \in PageTaxInputs, preserve \in BOOLEAN : PostUpdateFromPage(c, preserve)
  \/ \E i \in Ids : PutResolve(i)
  \/ \E i \in Ids : DeleteById(i)
  \/ \E t \in Taxes, s \in TaxStatuses : SetTaxStatus(t, s)
  \/ \E o \in Orders, s \in PaymentStatuses : SetOrderStatus(o, s)
  \/ \E d \in TickSteps : Tick(d)

SpecTaxPage == Init /\ [][NextTaxPage]_vars

\* ------------------------------------------------ concurrent requests (steps)
\* Requests run on one event loop and interleave at every await.  A process
\* is one call in flight: pc is the await it stands at, cand its argument,
\* snap what its first query returned, res / rid what it returned last.
At(p, pc, c, snap) ==
  [procs EXCEPT ![p] = [pc |-> pc, cand |-> c, snap |-> snap,
                        res |-> "none", rid |-> 0]]

Return(p, res, i) ==
  [procs EXCEPT ![p] = [pc |-> "idle", cand |-> procs[p].cand, snap |-> {},
                        res |-> res, rid |-> i]]

\* The payloads the callers of upsertNotification build in the current
\* state: check-stock, a posting page and the GST generator (the payment
\* generator's calls have the same shape and are left to the sequential
\* specifications).
UpsertInputs ==
  {OutOfStockData(p, 0, 5) : p \in Products}
    \cup {PageHashed(t) : t \in Taxes}
    \cup {GSTData(t, taxStatus[t], now) : t \in {x \in Taxes : TaxIsPending(taxStatus[x])}}

\* await Notification.findOne({notificationHash, timestamp: {$gte: ...}})
UpsertLookup(p) ==
  /\ procs[p].pc = "idle"
  /\ \E c \in UpsertInputs :
       procs' = At(p, "upsert_write", c, FindRecent(store, HashOf(c), now))
  /\ UNCHANGED <<store, nextId, now, taxStatus, orderStatus, last, io, shop>>

\* await Notification.findOneAndUpdate(...) or await newNotification.save()
UpsertWrite(p) ==
  /\ procs[p].pc = "upsert_write"
  /\ LET c == procs[p].cand
         h == HashOf(c)
     IN IF procs[p].snap # {}
        THEN LET e == CHOOSE d \in procs[p].snap : TRUE
                 cur == ById(store, e.id)
             IN IF ~hasChanges(e, c)
                THEN /\ procs' = Return(p, "unchanged", e.id)
                     /\ UNCHANGED <<store, nextId>>
                ELSE IF cur = {}
                THEN \* findOneAndUpdate returns null; reading .title throws
                     /\ procs' = Return(p, "error_type", 0)
                     /\ UNCHANGED <<store, nextId>>
                ELSE /\ store' = (store \ cur)
                                   \cup {UpdatedDoc(d, e, c, now) : d \in cur}
                     /\ procs' = Return(p, "updated", e.id)
                     /\ UNCHANGED nextId
        ELSE IF DuplicateKey(store, h)
        THEN /\ procs' = [procs EXCEPT ![p].pc = "upsert_recover"]
             /\ UNCHANGED <<store, nextId>>
        ELSE /\ nextId <= MaxId
             /\ store' = store \cup {NewDoc(c, h, nextId, now)}
             /\ nextId' = nextId + 1
             /\ procs' = Return(p, "created", nextId)
  /\ UNCHANGED <<now, taxStatus, orderStatus, last, io, shop>>

\* catch (error.code === 11000): await Notification.findOne({notificationHash})
UpsertRecover(p) ==
  /\ procs[p].pc = "upsert_recover"
  /\ LET R == RecoverFind(store, HashOf(procs[p].cand))
     IN IF R # {}
        THEN procs' = Return(p, "recovered", (CHOOSE d \in R : TRUE).id)
        ELSE procs' = Return(p, "error_11000", 0)
  /\ UNCHANGED <<store, nextId, now, taxStatus, orderStatus, last, io, shop>>

\* PUT /:id/read, its findByIdAndUpdate
StepRead(i) ==
  /\ ById(store, i) # {}
  /\ store' = (store \ ById(store, i))
                \cup {Merge([isRead |-> TRUE, lastUpdated |-> now], d)
                        : d \in ById(store, i)}
  /\ UNCHANGED <<nextId, now, taxStatus, orderStatus, last, procs, io, shop>>

\* PUT /:id/resolve, its findByIdAndUpdate
StepResolve(i) ==
  /\ ById(store, i) # {}
  /\ store' = (store \ ById(store, i))
                \cup {Merge([isResolved |-> TRUE, isRead |-> TRUE,
                             resolutionNote |-> "Manually resolved",
                             lastUpdated |-> now], d) : d \in ById(store, i)}
  /\ UNCHANGED <<nextId, now, taxStatus, orderStatus, last, procs, io, shop>>

\* DELETE /:id, its findByIdAndDelete
StepDelete(i) ==
  /\ ById(store, i) # {}
  /\ store' = store \ ById(store, i)
  /\ UNCHANGED <<nextId, now, taxStatus, orderStatus, last, procs, io, shop>>

\* POST /check-stock with sufficient stock: await Notification.find(...)
CheckStockFind(p, prod) ==
  /\ procs[p].pc = "idle"
  /\ LET existingNotifications ==
           {d \in store : /\ Has(d, "productId") /\ d.productId = prod
                          /\ d.type \in StockKinds /\ ~d.isResolved}
     IN procs' = IF existingNotifications # {}
                 THEN At(p, "stock_delete", [productId |-> prod], existingNotifications)
                 ELSE Return(p, "no_alert_needed", 0)
  /\ UNCHANGED <<store, nextId, now, taxStatus, orderStatus, last, io, shop>>

\* ... then await Notification.deleteMany({productId, type})
CheckStockDelete(p) ==
  /\ procs[p].pc = "stock_delete"
  /\ store' = {d \in store : ~(/\ Has(d, "productId")
                               /\ d.productId = procs[p].cand.productId
                               /\ d.type \in StockKinds)}
  /\ procs' = Return(p, "alerts_deleted", 0)
  /\ UNCHANGED <<nextId, now, taxStatus, orderStatus, last, io, shop>>

\* a generator's sweep for one paid record: await Notification.find(...)
SweepTargets ==
  {[notificationHash |-> GSTSweepHash(t), resolutionNote |-> GstNote(taxStatus[t])]
      : t \in {x \in Taxes : TaxIsPaid(taxStatus[x])}}

SweepFind(p) ==
  /\ procs[p].pc = "idle"
  /\ \E target \in SweepTargets :
       LET existingAlerts ==
             {d \in store : /\ Has(d, "notificationHash")
                            /\ d.notificationHash = target.notificationHash
                            /\ ~d.isResolved}
       IN procs' = IF existingAlerts # {}
                   THEN At(p, "sweep_update", target, existingAlerts)
                   ELSE Return(p, "none", 0)
  /\ UNCHANGED <<store, nextId, now, taxStatus, orderStatus, last, io, shop>>

\* ... then await Notification.updateMany({notificationHash, isResolved: false})
SweepUpdate(p) ==
  /\ procs[p].pc = "sweep_update"
  /\ LET hit == {d \in store : /\ Has(d, "notificationHash")
                               /\ d.notificationHash = procs[p].cand.notificationHash
                               /\ ~d.isResolved}
     IN store' = (store \ hit)
                   \cup {Merge([isResolved |-> TRUE, isRead |-> TRUE,
                                resolutionNote |-> procs[p].cand.resolutionNote,
                                lastUpdated |-> now], d) : d \in hit}
  /\ procs' = Return(p, "resolved", 0)
  /\ UNCHANGED <<nextId, now, taxStatus, orderStatus, last, io, shop>>

NextConc ==
  \/ \E p \in Procs : UpsertLookup(p)
  \/ \E p \in Procs : UpsertWrite(p)
  \/ \E p \in Procs : UpsertRecover(p)
  \/ \E i \in Ids : StepRead(i)
  \/ \E i \in Ids : StepResolve(i)
  \/ \E i \in Ids : StepDelete(i)
  \/ \E p \in Procs, prod \in Products : CheckStockFind(p, prod)
  \/ \E p \in Procs : CheckStockDelete(p)
  \/ \E p \in Procs : SweepFind(p)
  \/ \E p \in Procs : SweepUpdate(p)

SpecConc == InitConc /\ [][NextConc]_vars

\* concurrent upserts and nothing else
NextRace ==
  \/ \E p \in Procs : UpsertLookup(p)
  \/ \E p \in Procs : UpsertWrite(p)
  \/ \E p \in Procs : UpsertRecover(p)
  \/ \E d \in TickSteps : Tick(d)

SpecRace == InitConc /\ [][NextRace]_vars

\* ------------------------------------------------------------------ claims
\* the payloads the stock pages' handlers hand to upsertNotification
StockCalls ==
  {Merge([preserveTimestamp |-> b], c)
     : c \in {x \in PageStockInputs : Has(x, "type")}, b \in BOOLEAN}
    \cup {OutOfStockData(p, 0, m) : p \in Products, m \in MinLevels}
    \cup {LowStockData(p, cur, m)
            : p \in Products, cur \in {x \in StockLevels : x > 0}, m \in MinLevels}

SameHash(d, h) == Has(d, "notificationHash") /\ d.notificationHash = h

\* C1: whatever the interleaving of upserts, reads, resolutions, deletions
\* and sweeps, the store never holds two unresolved notifications with the
\* same notificationHash.
C1_OneUnresolvedPerHash ==
  \A d1 \in store : \A d2 \in store :
    (/\ Has(d1, "notificationHash")
     /\ SameHash(d2, d1.notificationHash)
     /\ ~d1.isResolved /\ ~d2.isResolved) => d1 = d2

\* an insert of a hash already stored has been rejected and the stored,
\* unresolved record handed back
C1_Witness ==
  \E p \in Procs : \E d \in store :
    /\ procs[p].res = "recovered" /\ procs[p].rid = d.id
    /\ SameHash(d, HashOf(procs[p].cand)) /\ ~d.isResolved

\* C2: two upsert calls for the same hash that both looked up before either
\* inserted leave exactly one record with that hash, and both calls return
\* that record (none of them an error).
C2_RaceOneRecord ==
  \A p \in Procs : \A q \in Procs :
    (/\ p # q
     /\ procs[p].pc = "idle" /\ procs[q].pc = "idle"
     /\ procs[p].res # "none" /\ procs[q].res # "none"
     /\ HashOf(procs[p].cand) = HashOf(procs[q].cand))
    => /\ procs[p].res \in {"created", "updated", "unchanged", "recovered"}
       /\ procs[q].res \in {"created", "updated", "unchanged", "recovered"}
       /\ procs[p].rid = procs[q].rid
       /\ Cardinality({d \in store : SameHash(d, HashOf(procs[p].cand))}) = 1
       /\ \E d \in store : d.id = procs[p].rid /\ SameHash(d, HashOf(procs[p].cand))

\* the race itself: on the day of creation the loser can only have got the
\* record through the duplicate-key path
C2_Witness ==
  \E p \in Procs : \E q \in Procs :
    /\ now = 0
    /\ procs[p].res = "created" /\ procs[q].res = "recovered"
    /\ HashOf(procs[p].cand) = HashOf(procs[q].cand)
    /\ procs[p].rid = procs[q].rid

\* C3: after an upsert that created a record, the same payload upserted
\* again at once is 'unchanged', so the two calls emit one event in all
\* (check-stock payloads, which omit isRead and isResolved, included).
C3_CreatedThenUnchanged ==
  (/\ last.op \in {"page", "check-stock"}
   /\ last.action = "created"
   /\ last.at = now)
  => LET r == upsertNotification(store, nextId, last.cand, now)
     IN /\ r.action = "unchanged"
        /\ Len(last.events) + Len(r.events) = 1

\* C4: an upsert whose hash belongs to a record resolved within the last 30
\* days returns 'created', stores a new unresolved record and leaves the
\* resolved one in the store.
C4_UpsertAfterResolve ==
  \A c \in StockCalls : \A d \in store :
    (/\ SameHash(d, HashOf(c))
     /\ d.isResolved
     /\ now - d.lastUpdated <= RetentionDays)
    => LET r == upsertNotification(store, nextId, c, now)
       IN /\ r.action = "created"
          /\ d \in r.store
          /\ \E n \in r.store :
               n.id # d.id /\ SameHash(n, HashOf(c)) /\ ~n.isResolved

\* C5: a record that has been resolved is in no list GET / returns
\* afterwards, and resolving leaves the record in the store.
C5_ResolvedLeavesFeed ==
  /\ last.op = "feed"
       => \A d \in store : Has(d, "resolutionNote") => d.id \notin last.feed
  /\ (last.op = "resolve" /\ last.action = "ok")
       => \E d \in store : d.id = last.id /\ d.isResolved

\* C6: once a generator has run, every alert stored for a tax entry or an
\* order that is marked paid is resolved and carries a resolution note.
C6_PaidSourceResolved ==
  last.op = "feed"
  => \A d \in store :
       (\/ /\ d.type = "GST Alert" /\ Has(d, "taxId")
           /\ d.taxId \in Taxes /\ TaxIsPaid(taxStatus[d.taxId])
        \/ /\ d.type = "Payment Alert" /\ Has(d, "orderId")
           /\ d.orderId \in Orders /\ OrderIsPaid(orderStatus[d.orderId]))
       => d.isResolved /\ Has(d, "resolutionNote")

\* what a further run of both generators would do in the current state
SecondRun ==
  LET g == generateGSTAlerts(store, nextId, taxStatus, now)
      pg == generatePaymentAlerts(g.store, g.nextId, orderStatus, now)
  IN [store |-> pg.store, writes |-> g.writes + pg.writes,
      events |-> g.events \o pg.events]

\* C7 (as stated): with the tax entries and orders unchanged since the last
\* generator run, another run writes nothing and emits nothing.
C7_SecondRunSilent ==
  last.op = "feed"
  => /\ SecondRun.writes = 0
     /\ SecondRun.events = <<>>
     /\ SecondRun.store = store

\* C7 (amended): with the tax entries and orders unchanged since the last
\* generator run and no day gone by since (every scanned record has the age
\* in days it had), another run writes nothing and emits nothing.
C7_SecondRunSilentSameDay ==
  (last.op = "feed" /\ last.at = now)
  => /\ SecondRun.writes = 0
     /\ SecondRun.events = <<>>
     /\ SecondRun.store = store

\* a run that created or updated an alert and resolved another
C7_Witness ==
  /\ last.op = "feed" /\ last.at = now
  /\ \E i \in 1..Len(last.events) :
       last.events[i].kind \in {"notification_created", "notification_updated"}
  /\ \E i \in 1..Len(last.events) : last.events[i].kind = "notification_resolved"

\* the fields the claim lists as tracked
ClaimedTrackedFields ==
  {"title", "message", "priority", "currentStock", "minStock", "amount",
   "isRead", "isResolved", "color"}

\* C8: when the lookup finds a record and the candidate differs from it in
\* a tracked field, the upsert returns 'updated' and the stored record then
\* carries the candidate's values.
C8_ChangedFieldUpdates ==
  \A c \in StockCalls :
    LET r == upsertNotification(store, nextId, c, now)
    IN \A e \in r.found :
         (\E k \in ClaimedTrackedFields : Differs(e, c, k))
         => /\ r.action = "updated"
            /\ \A n \in ById(r.store, e.id) :
                 \A k \in ClaimedTrackedFields \cap DOMAIN c : n[k] = c[k]

\* C9: no upsert call ends with the duplicate-key error, whatever deletes
\* and check-stock deletions run between its steps.
C9_DuplicateKeyNeverSurfaces ==
  \A p \in Procs : procs[p].res # "error_11000"

Field(k, vs) == {<<>>} \cup {[x \in {k} |-> v] : v \in vs}

\* Payloads as callers build them: identity fields present, empty or absent,
\* next to fields that have no part in the identity.  A payload is a function
\* of its field names, so the order a caller wrote them in is not kept.
HashInputs ==
  {Merge(ty, Merge(pid, Merge(tid, Merge(ino, Merge(inu, Merge(cn, Merge(cu,
     Merge(ti, cs))))))))
     : ty \in {[type |-> "GST Alert"], [type |-> "Low Stock"]},
       pid \in Field("productId", {"p1"}),
       tid \in Field("taxId", {"t1"}),
       ino \in Field("invoiceNo", {"", "INV-001"}),
       inu \in Field("invoiceNumber", {"INV-001", "BILL0001"}),
       cn \in Field("customerName", {"Acme"}),
       cu \in Field("customer", {"Acme"}),
       ti \in Field("title", {"Notice"}),
       cs \in Field("currentStock", {2})}

\* a caller computes the hash of a payload
ComputeHash(c) ==
  /\ last' = [op |-> "hash", cand |-> c, hash |-> generateNotificationHash(c),
              at |-> now]
  /\ UNCHANGED <<store, nextId, now, taxStatus, orderStatus, procs, io, shop>>

NextHash == \E c \in HashInputs : ComputeHash(c)

SpecHash == Init /\ [][NextHash]_vars

\* the identity-relevant fields, each alias of the invoice number and of the
\* customer name taken by itself
IdentityFields ==
  {"type", "productId", "orderId", "taxId", "invoiceNo", "invoiceNumber",
   "customerName", "customer", "billNumber", "gstin"}

AgreeOnIdentity(a, b) ==
  \A k \in IdentityFields :
    (IF Has(a, k) THEN a[k] ELSE "") = (IF Has(b, k) THEN b[k] ELSE "")

\* C11: two payloads that agree on the identity-relevant fields (an absent
\* field counting as the empty string) have the same hash, whatever other
\* fields they carry.
C11_HashOfIdentityFields ==
  last.op = "hash"
  => \A c \in HashInputs :
       AgreeOnIdentity(last.cand, c) => generateNotificationHash(c) = last.hash

\* a payload hashed next to one that differs from it in its other fields and
\* in an identity field sent empty instead of left out
C11_Witness ==
  /\ last.op = "hash"
  /\ Has(last.cand, "title") /\ Has(last.cand, "invoiceNo")
  /\ \E c \in HashInputs :
       /\ AgreeOnIdentity(last.cand, c)
       /\ ~Has(c, "title") /\ ~Has(c, "invoiceNo")
       /\ generateNotificationHash(c) = last.hash

\* C12: a stock check with currentStock = 0 that creates a record creates an
\* 'Out of Stock' notification of priority high, and once a stock check with
\* currentStock above minStock has run, no stock notification of the product
\* is left in the store.
C12_SufficientStockDeletes ==
  /\ (/\ last.op = "check-stock" /\ last.action = "created"
      /\ last.cand.currentStock = 0)
       => \E d \in store : /\ d.id = last.id /\ d.type = "Out of Stock"
                           /\ d.priority = "high" /\ ~d.isResolved
  /\ (last.op = "check-stock"
      /\ last.action \in {"alerts_deleted", "no_alert_needed"})
       => ~\E d \in store : /\ Has(d, "productId") /\ d.productId \in Products
                            /\ d.type \in StockKinds

\* ------------------------------------------ the GST scan on any tax entry
MaxAge == 9

\* pending or draft tax entries of every age up to MaxAge days, below, at
\* and above the high-value amount, with and without customer and gstin
ScannedTaxes ==
  {[invoiceNo |-> "INV-001", customer |-> cu, gstin |-> g, totalTax |-> amt,
    date |-> 0 - age, status |-> st]
     : cu \in {"Acme", ""}, g \in {"29ABC", ""},
       amt \in {500, GstHighValue - 1, GstHighValue, 2 * GstHighValue},
       age \in 0..MaxAge, st \in {"Pending", "Draft"}}

\* one pass of the scan loop up to the payload it hands to upsertNotification
ScanTaxEntry(tax, t) ==
  /\ TaxIsPending(tax.status)
  /\ last' = [op |-> "gst", tax |-> tax,
              cand |-> GSTDataOf(tax, t, tax.status, now), at |-> now]
  /\ UNCHANGED <<store, nextId, now, taxStatus, orderStatus, procs, io, shop>>

NextGst == \E tax \in ScannedTaxes, t \in Taxes : ScanTaxEntry(tax, t)

SpecGst == Init /\ [][NextGst]_vars

MaxEvents == 2
MaxSessions == 2

\* the event kinds the request handlers and generators emit with io.emit
PublishKinds ==
  {"notification_created", "notification_updated", "notification_resolved",
   "notification_deleted"}

\* faulty variant: a new connection is sent what was published before it
ConnectReplaying(c) ==
  /\ c \notin io.conn
  /\ io.opened[c] < MaxSessions
  /\ io' = [io EXCEPT !.conn = @ \cup {c},
                      !.opened[c] = @ + 1,
                      !.out[c] = {e.seq : e \in io.pub}]
  /\ UNCHANGED <<store, nextId, now, taxStatus, orderStatus, last, procs, shop>>

\* io.on('connection'): a client opens a socket; nothing is queued for it
Connect(c) ==
  /\ c \notin io.conn
  /\ io.opened[c] < MaxSessions
  /\ io' = [io EXCEPT !.conn = @ \cup {c},
                      !.opened[c] = @ + 1,
                      !.out[c] = {}]
  /\ UNCHANGED <<store, nextId, now, taxStatus, orderStatus, last, procs, shop>>

\* socket.on('joinNotificationRoom')
JoinNotificationRoom(c) ==
  /\ c \in io.conn
  /\ c \notin io.room
  /\ io' = [io EXCEPT !.room = @ \cup {c}]
  /\ UNCHANGED <<store, nextId, now, taxStatus, orderStatus, last, procs, shop>>

\* socket.on('disconnect'): the socket leaves its rooms and what was queued
\* for it is dropped
Disconnect(c) ==
  /\ c \in io.conn
  /\ io' = [io EXCEPT !.conn = @ \ {c}, !.room = @ \ {c}, !.out[c] = {}]
  /\ UNCHANGED <<store, nextId, now, taxStatus, orderStatus, last, procs, shop>>

\* the sessions open now
Sessions(S) == {<<c, io.opened[c]>> : c \in S}

\* io.emit(kind, payload): one packet for every connected socket
IoEmit(kind) ==
  /\ Cardinality(io.pub) < MaxEvents
  /\ LET seq == Cardinality(io.pub) + 1
     IN io' = [io EXCEPT
                 !.out = [c \in Clients |->
                            IF c \in io.conn THEN io.out[c] \cup {seq}
                            ELSE io.out[c]],
                 !.pub = @ \cup {[seq |-> seq, kind |-> kind,
                                  at |-> Sessions(io.conn)]}]
  /\ UNCHANGED <<store, nextId, now, taxStatus, orderStatus, last, procs, shop>>

\* io.to('notifications').emit('new_notification', ...) of the socket's
\* stock_updated handler: one packet for every socket in the room
IoToRoomEmit ==
  /\ Cardinality(io.pub) < MaxEvents
  /\ LET seq == Cardinality(io.pub) + 1
     IN io' = [io EXCEPT
                 !.out = [c \in Clients |->
                            IF c \in io.room THEN io.out[c] \cup {seq}
                            ELSE io.out[c]],
                 !.pub = @ \cup {[seq |-> seq, kind |-> "new_notification",
                                  at |-> Sessions(io.conn)]}]
  /\ UNCHANGED <<store, nextId, now, taxStatus, orderStatus, last, procs, shop>>

\* a queued packet reaches its client
Deliver(c) ==
  /\ c \in io.conn
  /\ \E seq \in io.out[c] :
       io' = [io EXCEPT !.out[c] = @ \ {seq},
                        !.got[c] = @ \cup {<<seq, io.opened[c]>>}]
  /\ UNCHANGED <<store, nextId, now, taxStatus, orderStatus, last, procs, shop>>

NextIo ==
  \/ \E c \in Clients : Connect(c)
  \/ \E c \in Clients : JoinNotificationRoom(c)
  \/ \E c \in Clients : Disconnect(c)
  \/ \E kind \in {"notification_created"} : IoEmit(kind)
  \/ IoToRoomEmit
  \/ \E c \in Clients : Deliver(c)

SpecIo == Init /\ [][NextIo]_vars

\* C14: an event published with io.emit is queued for or received by a
\* client only in a session that was connected when it was published, and
\* every session connected at that moment has received it, has it queued,
\* or has ended; a session opened later never gets it.
C14_PublishToConnectedOnly ==
  \A e \in io.pub :
    e.kind \in PublishKinds
    => /\ \A c \in Clients :
            /\ \A g \in io.got[c] : g[1] = e.seq => <<c, g[2]>> \in e.at
            /\ e.seq \in io.out[c] => <<c, io.opened[c]>> \in e.at
       /\ \A a \in e.at :
            \/ <<e.seq, a[2]>> \in io.got[a[1]]
            \/ e.seq \in io.out[a[1]]
            \/ a[1] \notin io.conn
            \/ io.opened[a[1]] # a[2]

\* one client has received an event in the session it was published to,
\* another is connected in a session opened after the publication
C14_Witness ==
  \E e \in io.pub : \E c \in Clients : \E d \in Clients :
    /\ e.kind \in PublishKinds
    /\ <<e.seq, io.opened[c]>> \in io.got[c]
    /\ d \in io.conn
    /\ <<d, io.opened[d]>> \notin e.at
    /\ e.seq \notin io.out[d]

\* ------------------------------------------- feed reads with failing sources
\* where a generator can fail: the find of its pending records, every upsert
\* of its scan, the find of its paid records
Failures == {"none", "fetch", "upsert", "sweep"}

\* generateGSTAlerts when a store call of it throws: the inner catch of the
\* fetch returns the empty alerts, a throwing upsert is skipped (continue),
\* and a throw in the sweep reaches the outer catch, which returns []
generateGSTAlertsWith(S, nid, ts, t, f) ==
  LET start == GenState(S, nid, <<>>, 0, {})
      scanned == ScanGST({x \in Taxes : TaxIsPending(ts[x])}, start, ts, t)
  IN CASE f = "fetch" -> start
       [] f = "upsert" -> SweepGST({x \in Taxes : TaxIsPaid(ts[x])}, start, ts, t)
       [] f = "sweep" -> [scanned EXCEPT !.alerts = {}]
       [] OTHER -> generateGSTAlerts(S, nid, ts, t)

generatePaymentAlertsWith(S, nid, os, t, f) ==
  LET start == GenState(S, nid, <<>>, 0, {})
      scanned == ScanPayment({x \in Orders : OrderIsPending(os[x])}, start, os, t)
  IN CASE f = "fetch" -> start
       [] f = "upsert" -> SweepPayment({x \in Orders : OrderIsPaid(os[x])}, start, os, t)
       [] f = "sweep" -> [scanned EXCEPT !.alerts = {}]
       [] OTHER -> generatePaymentAlerts(S, nid, os, t)

\* faulty variant: a generator's failure ends the request with status 500
FeedWithUnguarded(S, nid, ts, os, t, fg, fp) ==
  LET Answer(gst, pay) ==
        [store |-> IF fg # "none" THEN gst.store ELSE pay.store,
         nextId |-> IF fg # "none" THEN gst.nextId ELSE pay.nextId,
         events |-> IF fg # "none" THEN gst.events ELSE gst.events \o pay.events,
         writes |-> IF fg # "none" THEN gst.writes ELSE gst.writes + pay.writes,
         feed |-> IF fg # "none" \/ fp # "none" THEN {}
                  ELSE {d.id : d \in
                          {n \in MapAddAll(MapAddAll(MapAddAll({},
                                   {d \in S : ~d.isResolved}), gst.alerts),
                                   pay.alerts) : ~n.isResolved}},
         status |-> IF fg # "none" \/ fp # "none" THEN 500 ELSE 200]
      AfterGst(gst) ==
        CHOOSE r \in {Answer(gst, pay)
                        : pay \in {generatePaymentAlertsWith(gst.store, gst.nextId,
                                                            os, t, fp)}} : TRUE
  IN CHOOSE r \in {AfterGst(gst)
                     : gst \in {generateGSTAlertsWith(S, nid, ts, t, fg)}} : TRUE

\* GET / with the generators failing at fg and fp: the stored unresolved
\* records are read first, each generator runs in its own try/catch and the
\* response is res.json(uniqueNotifications).  (gst and pay are bound once
\* to the generators' results.)
FeedWith(S, nid, ts, os, t, fg, fp) ==
  LET Answer(gst, pay) ==
        [store |-> pay.store, nextId |-> pay.nextId,
         events |-> gst.events \o pay.events,
         writes |-> gst.writes + pay.writes,
         feed |-> {d.id : d \in
                     {n \in MapAddAll(MapAddAll(MapAddAll({},
                              {d \in S : ~d.isResolved}), gst.alerts),
                              pay.alerts) : ~n.isResolved}},
         status |-> 200]
      AfterGst(gst) ==
        CHOOSE r \in {Answer(gst, pay)
                        : pay \in {generatePaymentAlertsWith(gst.store, gst.nextId,
                                                            os, t, fp)}} : TRUE
  IN CHOOSE r \in {AfterGst(gst)
                     : gst \in {generateGSTAlertsWith(S, nid, ts, t, fg)}} : TRUE

GetFeedWith(fg, fp) ==
  \E r \in {FeedWith(store, nextId, taxStatus, orderStatus, now, fg, fp)} :
     /\ fg = "none" \/ fp = "none"
     /\ r.nextId <= MaxId + 1
     /\ store' = r.store
     /\ nextId' = r.nextId
     /\ last' = Done("feed", [gst |-> fg, pay |-> fp],
                     IF r.status = 200 THEN "ok" ELSE "error_500", 0,
                     r.events, r.writes, r.feed)
     /\ UNCHANGED <<now, taxStatus, orderStatus, procs, io, shop>>

\* feed reads, at most one generator failing in each
NextFeedFail ==
  \/ \E fg \in Failures, fp \in Failures : GetFeedWith(fg, fp)
  \/ \E i \in Ids : PutResolve(i)
  \/ \E t \in Taxes, s \in TaxStatuses : SetTaxStatus(t, s)
  \/ \E o \in Orders, s \in PaymentStatuses : SetOrderStatus(o, s)
  \/ \E d \in TickSteps : Tick(d)

SpecFeedFail == Init /\ [][NextFeedFail]_vars

NoId(d) == Restrict(d, DOMAIN d \ {"id"})

OfType(S, ty) == {d \in S : d.type = ty}

\* C15: in a feed read where one generator fails, the request still answers
\* 200 with every notification that was stored unresolved, and the other
\* generator does to its alerts what it does when run by itself and has its
\* unresolved alerts in the answer.
C15_GeneratorFailuresIsolated ==
  \A f \in Failures \ {"none"} :
    LET stored == {d.id : d \in {n \in store : ~n.isResolved}}
        rg == FeedWith(store, nextId, taxStatus, orderStatus, now, f, "none")
        rp == FeedWith(store, nextId, taxStatus, orderStatus, now, "none", f)
        payAlone == generatePaymentAlerts(store, nextId, orderStatus, now)
        gstAlone == generateGSTAlerts(store, nextId, taxStatus, now)
    IN /\ rg.status = 200 /\ rp.status = 200
       /\ stored \subseteq rg.feed /\ stored \subseteq rp.feed
       /\ {NoId(d) : d \in OfType(rg.store, "Payment Alert")}
            = {NoId(d) : d \in OfType(payAlone.store, "Payment Alert")}
       /\ {NoId(d) : d \in OfType(rp.store, "GST Alert")}
            = {NoId(d) : d \in OfType(gstAlone.store, "GST Alert")}
       /\ \A d \in OfType(rg.store, "Payment Alert") :
            ~d.isResolved => d.id \in rg.feed
       /\ \A d \in OfType(rp.store, "GST Alert") :
            ~d.isResolved => d.id \in rp.feed

\* a feed read whose GST generator failed answered with the payment alert
\* the other generator created in that very request
C15_Witness ==
  /\ last.op = "feed" /\ last.action = "ok"
  /\ last.cand.gst # "none" /\ last.cand.pay = "none"
  /\ \E i \in 1..Len(last.events) :
       /\ last.events[i].kind = "notification_created"
       /\ last.events[i].id \in last.feed
       /\ \E d \in OfType(store, "Payment Alert") : d.id = last.events[i].id

\* --------------------------------------------------------- requests by path
\* Mongoose casts req.params.id to an ObjectId inside findById; a text that is
\* no ObjectId makes the query reject with a CastError. ToString(i) is the
\* text of the _id i as it appears in a request path.
IsObjectId(s) == \E i \in Ids : ToString(i) = s

castObjectId(s) == CHOOSE i \in Ids : ToString(i) = s

\* path segments clients send after /api/notifications
PathSegments == {ToString(i) : i \in Ids} \cup {"clear-resolved"}

\* the router's PUT and DELETE routes in the order they are registered
Routes ==
  << [method |-> "PUT", path |-> <<":id", "read">>, handler |-> "read"],
     [method |-> "PUT", path |-> <<":id", "resolve">>, handler |-> "resolve"],
     [method |-> "PUT", path |-> <<"mark-all-read">>, handler |-> "mark-all-read"],
     [method |-> "DELETE", path |-> <<":id">>, handler |-> "delete"],
     [method |-> "DELETE", path |-> <<"clear-resolved">>,
      handler |-> "clear-resolved"] >>

\* Express runs the first registered route that matches; ":id" matches any
\* one segment
Dispatch(method, path) ==
  LET RouteMatches(r) ==
        /\ r.method = method
        /\ Len(r.path) = Len(path)
        /\ \A k \in 1..Len(path) : r.path[k] = ":id" \/ r.path[k] = path[k]
      hits == {k \in DOMAIN Routes : RouteMatches(Routes[k])}
  IN IF hits = {} THEN "none"
     ELSE Routes[CHOOSE k \in hits : \A j \in hits : k <= j].handler

\* the catch block of a handler: status 500
ServerError(op) ==
  /\ last' = Done(op, NoCand, "error_500", 0, <<>>, 0, {})
  /\ UNCHANGED <<store, nextId, now, taxStatus, orderStatus, procs, io, shop>>

\* PUT /mark-all-read
PutMarkAllRead ==
  LET notifications == {d \in store : ~d.isResolved /\ ~d.isRead}
      evs == [k \in 1..Len(SeqOfSet(notifications)) |->
                Ev("notification_updated", SeqOfSet(notifications)[k].id)]
  IN /\ store' = (store \ notifications)
                   \cup {Merge([isRead |-> TRUE, lastUpdated |-> now], d) :
                           d \in notifications}
     /\ last' = Done("mark-all-read", NoCand, "ok", 0, evs,
                     Cardinality(notifications), {})
     /\ UNCHANGED <<nextId, now, taxStatus, orderStatus, procs, io, shop>>

\* DELETE /clear-resolved
ClearResolved ==
  LET resolvedNotifications == {d \in store : d.isResolved \/ d.isRead}
      evs == [k \in 1..Len(SeqOfSet(resolvedNotifications)) |->
                Ev("notification_deleted", SeqOfSet(resolvedNotifications)[k].id)]
  IN /\ store' = store \ resolvedNotifications
     /\ last' = Done("clear-resolved", NoCand, "ok", 0, evs,
                     Cardinality(resolvedNotifications), {})
     /\ UNCHANGED <<nextId, now, taxStatus, orderStatus, procs, io, shop>>

\* a PUT request: route, then the handler with req.params.id
HttpPut(path) ==
  LET h == Dispatch("PUT", path)
  IN IF h = "mark-all-read" THEN PutMarkAllRead
     ELSE IF ~IsObjectId(path[1]) THEN ServerError(h)
     ELSE IF h = "read" THEN PutRead(castObjectId(path[1]))
     ELSE PutResolve(castObjectId(path[1]))

\* a DELETE request: route, then the handler with req.params.id
HttpDelete(path) ==
  LET h == Dispatch("DELETE", path)
  IN IF h = "clear-resolved" THEN ClearResolved
     ELSE IF ~IsObjectId(path[1]) THEN ServerError(h)
     ELSE DeleteById(castObjectId(path[1]))

PutPaths ==
  {<<s, v>> : s \in PathSegments, v \in {"read", "resolve"}}
    \cup {<<"mark-all-read">>}

DeletePaths == {<<s>> : s \in PathSegments}

\* request bodies of POST /update-from-page; the last one carries no
\* notificationData
PageBodies ==
  {[notificationData |-> c, preserveTimestamp |-> p] :
     c \in PageStockInputs, p \in BOOLEAN}
    \cup {[notificationData |-> PageLowStock(q, 2, 5)] : q \in Products}
    \cup {[source |-> "stock_page"]}

\* POST /update-from-page from the request body on: the destructuring, the
\* log line that reads notificationData.title, then the handler's checks
PostUpdateFromPageRequest(body) ==
  IF ~Has(body, "notificationData")
  THEN ServerError("page")
  ELSE PostUpdateFromPage(body.notificationData,
                          IF Has(body, "preserveTimestamp")
                          THEN body.preserveTimestamp ELSE FALSE)

NextRoutes ==
  \/ \E body \in PageBodies : PostUpdateFromPageRequest(body)
  \/ \E path \in PutPaths : HttpPut(path)
  \/ \E path \in DeletePaths : HttpDelete(path)
  \/ \E d \in TickSteps : Tick(d)

SpecRoutes == Init /\ [][NextRoutes]_vars

\* C16: mark-read, resolve and delete addressed to an id that matches no
\* stored notification answer not-found, leave the store unchanged and emit
\* no broadcast event.
C16_NotFoundByIdSilent ==
  [][LET MatchesNoStored(s) ==
           ~\E d \in store : IsObjectId(s) /\ d.id = castObjectId(s)
     IN
     /\ \A path \in PutPaths :
          (Dispatch("PUT", path) \in {"read", "resolve"}
             /\ MatchesNoStored(path[1]) /\ HttpPut(path))
            => (last'.action = "not_found" /\ store' = store
                  /\ last'.events = <<>>)
     /\ \A path \in DeletePaths :
          (Dispatch("DELETE", path) = "delete"
             /\ MatchesNoStored(path[1]) /\ HttpDelete(path))
            => (last'.action = "not_found" /\ store' = store
                  /\ last'.events = <<>>)]_vars

\* C17: POST /update-from-page with absent notification data, or data without
\* a type, is rejected as a validation error; nothing is written, nothing is
\* broadcast.
C17_BadIngestionRejected ==
  [][\A body \in PageBodies :
       ((IF Has(body, "notificationData")
         THEN ~Has(body.notificationData, "type") ELSE TRUE)
          /\ PostUpdateFromPageRequest(body))
         => (last'.action = "rejected_400" /\ store' = store
               /\ last'.events = <<>>)]_vars

\* C18: DELETE /clear-resolved reaches the clear-resolved handler, after it
\* exactly the records that had isResolved = FALSE are stored, and one
\* deletion event is emitted per deleted record.
C18_ClearResolvedDeletesResolved ==
  [][HttpDelete(<<"clear-resolved">>)
       => (/\ last'.op = "clear-resolved"
           /\ store' = {d \in store : ~d.isResolved}
           /\ Len(last'.events) = Cardinality({d \in store : d.isResolved}))]_vars

\* C19: marking read (by id, all) leaves every record's isResolved as it was;
\* resolving by id leaves every record's isRead as it was.
C19_ReadResolvedIndependent ==
  [][/\ (\E path \in PutPaths :
           Dispatch("PUT", path) \in {"read", "mark-all-read"} /\ HttpPut(path))
          => \A d \in store : \E e \in store' :
               e.id = d.id /\ e.isResolved = d.isResolved
     /\ (\E path \in PutPaths :
           Dispatch("PUT", path) = "resolve" /\ HttpPut(path))
          => \A d \in store : \E e \in store' :
               e.id = d.id /\ e.isRead = d.isRead]_vars

\* C20: when the lookup finds a record and no tracked field of the payload
\* differs from it, upsert answers 'unchanged', the store it leaves is the
\* store it found (every field of every record, lastUpdated and timestamp
\* included), it writes nothing and emits no event.
C20_UnchangedLeavesStore ==
  \A c \in StockCalls :
    LET F == FindRecent(store, HashOf(c), now)
    IN (F # {} /\ \A e \in F : ~hasChanges(e, c))
         => LET r == upsertNotification(store, nextId, c, now)
            IN /\ r.action = "unchanged"
               /\ r.store = store
               /\ r.events = <<>>
               /\ r.writes = 0

\* a page's upsert has just answered 'unchanged' for a stored record that is
\* older than the request
C20_Witness ==
  /\ last.op \in {"page", "check-stock"}
  /\ last.action = "unchanged"
  /\ last.at = now
  /\ last.events = <<>>
  /\ \E e \in FindRecent(store, HashOf(last.cand), now) :
       /\ ~hasChanges(e, last.cand)
       /\ e.lastUpdated < now

C22_UpdateKeepsTimestamp ==
  \A p \in Products, cur \in {2, 4}, min \in MinLevels :
    LET c == LowStockData(p, cur, min)
    IN \A e \in FindRecent(store, HashOf(c), now) :
         e.currentStock # cur
           => LET r == upsertNotification(store, nextId, c, now)
              IN /\ r.action = "updated"
                 /\ \A d \in ById(r.store, e.id) :
                      d.timestamp = e.timestamp /\ d.lastUpdated = now

\* C23: when every stored record with the payload's hash was created more
\* than 30 days ago, upsert answers 'created' with a new record that has
\* isResolved = FALSE and timestamp = now, and the stale records stay stored
\* and are not the record returned.
C23_StaleIgnoredNewCreated ==
  \A c \in StockCalls :
    LET stale == {d \in store : SameHash(d, HashOf(c))}
    IN (stale # {} /\ \A d \in stale : d.timestamp < now - RetentionDays)
         => LET r == upsertNotification(store, nextId, c, now)
            IN /\ r.action = "created"
               /\ stale \subseteq r.store
               /\ r.id \notin {d.id : d \in stale}
               /\ \E d \in ById(r.store, r.id) :
                    ~d.isResolved /\ d.timestamp = now

\* ------------------------------------------------- stock events on the socket
\* upsertNotification of seed.js: the socket handlers' own upsert, keyed by
\* type, productId and isRead: false; it computes no notificationHash
seedUpsertNotification(S, nid, c, t) ==
  LET matches == {d \in S : /\ d.type = c.type
                            /\ Has(d, "productId") /\ d.productId = c.productId
                            /\ ~d.isRead}
  IN IF matches # {}
     THEN LET e == CHOOSE d \in matches : TRUE
          IN [store |-> (S \ {e})
                          \cup {Merge([timestamp |-> t],
                                      Merge(Restrict(c, {"title", "message",
                                                         "currentStock", "minStock",
                                                         "priority", "color"}), e))},
              nextId |-> nid, isNew |-> FALSE, id |-> e.id]
     ELSE [store |-> S \cup {Merge([id |-> nid, timestamp |-> t, lastUpdated |-> t],
                                   Merge(c, SchemaDefaults))},
           nextId |-> nid + 1, isNew |-> TRUE, id |-> nid]

\* the notificationData the 'stock_updated' handler builds from the event
StockUpdatedData(p, cur, min) ==
  [type |-> IF cur = 0 THEN "Out of Stock" ELSE "Low Stock",
   title |-> IF cur = 0 THEN "Out of Stock Alert" ELSE "Low Stock Alert",
   message |-> Msg(IF cur = 0 THEN "is out of stock" ELSE "stock is low", cur, p, "", 0),
   productName |-> p, productId |-> p, currentStock |-> cur, minStock |-> min,
   priority |-> IF cur = 0 THEN "high" ELSE IF cur <= 2 THEN "high" ELSE "medium",
   color |-> IF cur = 0 THEN "red" ELSE "orange", icon |-> "Package"]

\* socket.on('stock_updated')
SocketStockUpdated(p, cur, min) ==
  \E r \in {seedUpsertNotification(store, nextId, StockUpdatedData(p, cur, min), now)} :
    /\ r.nextId <= MaxId + 1
    /\ store' = r.store
    /\ nextId' = r.nextId
    /\ last' = Done("stock_updated", StockUpdatedData(p, cur, min),
                    IF r.isNew THEN "created" ELSE "updated", r.id,
                    <<Ev("new_notification", r.id)>>, 1, {})
    /\ UNCHANGED <<now, taxStatus, orderStatus, procs, io, shop>>

\* the store POST /check-stock leaves when it is sent the same three values
CheckStockStore(S, nid, p, cur, min, t) ==
  IF cur = 0 THEN upsertNotification(S, nid, OutOfStockData(p, cur, min), t).store
  ELSE IF cur > 0 /\ cur <= min
  THEN upsertNotification(S, nid, LowStockData(p, cur, min), t).store
  ELSE IF \E d \in S : /\ Has(d, "productId") /\ d.productId = p
                       /\ d.type \in StockKinds /\ ~d.isResolved
  THEN {d \in S : ~(Has(d, "productId") /\ d.productId = p /\ d.type \in StockKinds)}
  ELSE S

\* stock reports arriving over HTTP and over the socket
NextSocketStock ==
  \/ \E p \in Products, cur \in StockLevels, min \in MinLevels : SocketStockUpdated(p, cur, min)
  \/ \E p \in Products, cur \in StockLevels, min \in MinLevels : PostCheckStock(p, cur, min)
  \/ \E i \in Ids : PutRead(i)
  \/ \E i \in Ids : DeleteById(i)
  \/ \E d \in TickSteps : Tick(d)

SpecSocketStock == Init /\ [][NextSocketStock]_vars

\* C24: a 'stock_updated' event leaves the same unresolved stock
\* notifications (product and type) as POST /check-stock with the same
\* productId, currentStock and minStock on the same store; none for the
\* product when the stock is above minStock.
C24_SocketSameAsCheckStock ==
  [][\A p \in Products, cur \in StockLevels, min \in MinLevels :
       SocketStockUpdated(p, cur, min)
         => LET UnresolvedStock(S) ==
                  {[productId |-> d.productId, type |-> d.type] :
                     d \in {x \in S : /\ Has(x, "productId")
                                      /\ x.type \in StockKinds /\ ~x.isResolved}}
            IN /\ UnresolvedStock(store')
                    = UnresolvedStock(CheckStockStore(store, nextId, p, cur, min, now))
               /\ cur > min
                    => ~\E n \in UnresolvedStock(store') : n.productId = p]_vars

\* C25: isResolved is monotone: a record that has isResolved = TRUE keeps it
\* through every later request for as long as it is stored.
C25_ResolvedStaysResolved ==
  [][\A d \in store : d.isResolved
       => \A e \in store' : e.id = d.id => e.isResolved]_vars

\* C26: a GST notification that was marked read, and that the generator's
\* payload of today equals in every other compared field (the source is
\* unchanged), keeps isRead = TRUE through a feed read, and the feed read
\* emits no event for it.
C26_ReadSurvivesFeed ==
  [][GetFeed
       => \A d \in store :
            (/\ d.type = "GST Alert" /\ d.isRead /\ ~d.isResolved
             /\ TaxIsPending(taxStatus[d.taxId])
             /\ \A k \in TrackedFields \ {"isRead"} :
                  ~Differs(d, GSTData(d.taxId, taxStatus[d.taxId], now), k))
            => /\ \A e \in store' : e.id = d.id => e.isRead
               /\ \A n \in 1..Len(last'.events) : last'.events[n].id # d.id]_vars

\* stock reports over HTTP and nothing else
NextCheckStock ==
  \/ \E p \in Products, cur \in StockLevels, min \in MinLevels : PostCheckStock(p, cur, min)
  \/ \E d \in TickSteps : Tick(d)

SpecCheckStock == Init /\ [][NextCheckStock]_vars

\* C27: after any sequence of POST /check-stock calls every product has at
\* most one unresolved stock notification, and after a call that reported
\* zero or low stock its type is the type of that report.
C27_OneStockAlertPerProduct ==
  last.op = "check-stock"
    => \A p \in Products :
         LET U == {d \in store : /\ Has(d, "productId") /\ d.productId = p
                                 /\ d.type \in StockKinds /\ ~d.isResolved}
         IN /\ Cardinality(U) <= 1
            /\ (last.action \notin {"alerts_deleted", "no_alert_needed"}
                  /\ last.cand.productId = p)
                 => \A d \in U : d.type = last.cand.type

\* C28: when POST /check-stock with sufficient stock removes notifications,
\* the records deleted from the store are exactly the records a
\* notification_deleted event is emitted for.
C28_DeletedAreAnnounced ==
  [][\A p \in Products, cur \in StockLevels, min \in MinLevels :
       (cur > min /\ PostCheckStock(p, cur, min))
         => {d.id : d \in store} \ {d.id : d \in store'}
              = {last'.events[n].id :
                   n \in {k \in 1..Len(last'.events) :
                            last'.events[k].kind = "notification_deleted"}}]_vars

\* ---------------------------------------------------------------- coin wallet
\* customerSchema.pre('save'): the membership tier by totalPurchases
TierOf(totalPurchases) ==
  IF totalPurchases >= 5000 THEN "Platinum"
  ELSE IF totalPurchases >= 2000 THEN "Gold"
  ELSE IF totalPurchases >= 500 THEN "Silver" ELSE "Bronze"

\* customerSchema.methods.earnCoinsFromPurchase, then the pre-save hook
earnCoinsFromPurchase(c, amount) ==
  LET rates == [Bronze |-> 10, Silver |-> 11, Gold |-> 12, Platinum |-> 13]
      earned == (amount * rates[c.membershipTier]) \div 100
  IN [coins |-> c.coins + earned, coinsEarned |-> c.coinsEarned + earned,
      coinsRedeemed |-> c.coinsRedeemed,
      totalPurchases |-> c.totalPurchases + amount,
      membershipTier |-> TierOf(c.totalPurchases + amount)]

\* customerSchema.methods.redeemCoins; the debit branch of /adjust does the same
redeemCoins(c, coins) ==
  [c EXCEPT !.coins = c.coins - coins, !.coinsRedeemed = c.coinsRedeemed + coins]

\* request bodies of POST /purchase, /redeem and /adjust
CoinRequests ==
  {[op |-> "purchase", customerId |-> k, n |-> a] : k \in Customers, a \in {100}}
    \cup {[op |-> o, customerId |-> k, n |-> a]
            : o \in {"redeem", "debit"}, k \in Customers, a \in {10}}
    \cup {[op |-> "credit", customerId |-> k, n |-> 5] : k \in Customers}

\* the document in memory after the handler's change ('Manual Credit' adds
\* to coins and coinsEarned in the handler itself)
Changed(rq, c) ==
  IF rq.op = "purchase" THEN earnCoinsFromPurchase(c, rq.n)
  ELSE IF rq.op = "credit"
  THEN [c EXCEPT !.coins = c.coins + rq.n, !.coinsEarned = c.coinsEarned + rq.n]
  ELSE redeemCoins(c, rq.n)

\* document.save(): $set of the paths that were modified since the read
SaveModified(cur, snap, mem) ==
  [f \in DOMAIN cur |-> IF mem[f] # snap[f] THEN mem[f] ELSE cur[f]]

\* await Customer.findById(customerId), then the balance check
CoinFind(p, rq) ==
  /\ coinReqs[p].pc = "idle"
  /\ LET customer == customers[rq.customerId]
     IN coinReqs' =
          [coinReqs EXCEPT ![p] =
             IF rq.op \in {"redeem", "debit"} /\ customer.coins < rq.n
             THEN [CoinIdle EXCEPT !.res = "rejected_400"]
             ELSE [pc |-> "save", rq |-> rq, snap |-> customer, res |-> "none"]]
  /\ UNCHANGED <<store, nextId, now, taxStatus, orderStatus, last, procs, io,
                 customers, stock, sales>>

\* the in-memory change and await customer.save(); the answer follows
CoinSave(p) ==
  /\ coinReqs[p].pc = "save"
  /\ LET rq == coinReqs[p].rq
         snap == coinReqs[p].snap
         mem == Changed(rq, snap)
         saved == SaveModified(customers[rq.customerId], snap, mem)
     IN /\ \A f \in {"coins", "coinsEarned", "coinsRedeemed"} : saved[f] <= MaxCoins
        /\ saved.totalPurchases <= MaxSpend
        /\ customers' = [customers EXCEPT ![rq.customerId] = saved]
        /\ coinReqs' = [coinReqs EXCEPT ![p] = [CoinIdle EXCEPT !.res = "ok"]]
  /\ UNCHANGED <<store, nextId, now, taxStatus, orderStatus, last, procs, io,
                 stock, sales>>

NextCoins ==
  \/ \E p \in Procs, rq \in CoinRequests : CoinFind(p, rq)
  \/ \E p \in Procs : CoinSave(p)

SpecCoins == Init /\ [][NextCoins]_vars

\* C29: under every interleaving of purchase, redeem and manual credit and
\* debit each customer's wallet has coins = coinsEarned - coinsRedeemed and
\* coins >= 0, and the save of a successful redeem or debit leaves the
\* stored balance lower by the request's amount.
C29_WalletConsistent ==
  [][/\ \A k \in Customers :
          /\ customers'[k].coins
               = customers'[k].coinsEarned - customers'[k].coinsRedeemed
          /\ customers'[k].coins >= 0
     /\ \A p \in Procs :
          (CoinSave(p) /\ coinReqs[p].rq.op \in {"redeem", "debit"})
            => customers'[coinReqs[p].rq.customerId].coins
                 = customers[coinReqs[p].rq.customerId].coins - coinReqs[p].rq.n]_vars

\* -------------------------------------------------------------- sales counter
\* req.body.items: up to two items, each naming a product and a quantity
SaleItemLists ==
  LET Item == [productId : SaleProducts, quantity : 1..MaxStock]
  IN {<<>>} \cup {<<x>> : x \in Item} \cup {<<x, y>> : x \in Item, y \in Item}

\* for (const item of items): findById, the stock check, product.save();
\* the loop stops at the first item whose product has too little stock
RECURSIVE SaleLoop(_, _, _)
SaleLoop(stk, items, i) ==
  IF i > Len(items) THEN [stock |-> stk, ok |-> TRUE]
  ELSE IF stk[items[i].productId] < items[i].quantity
  THEN [stock |-> stk, ok |-> FALSE]
  ELSE SaleLoop([stk EXCEPT ![items[i].productId] = @ - items[i].quantity],
                items, i + 1)

\* POST / of the sales router
PostSale(items) ==
  IF Len(items) = 0
  THEN /\ last' = Done("sale", NoCand, "missing_fields", 0, <<>>, 0, {})
       /\ UNCHANGED <<store, nextId, now, taxStatus, orderStatus, procs, io, shop>>
  ELSE \E r \in {SaleLoop(stock, items, 1)} :
         /\ stock' = r.stock
         /\ IF r.ok
            THEN /\ Cardinality(sales) < MaxSales
                 /\ sales' = sales \cup
                      {[billNumber |-> Cardinality(sales) + 1, items |-> items]}
                 /\ last' = Done("sale", NoCand, "created", 0, <<>>, 1, {})
            ELSE /\ sales' = sales
                 /\ last' = Done("sale", NoCand, "insufficient_stock", 0, <<>>, 0, {})
         /\ UNCHANGED <<store, nextId, now, taxStatus, orderStatus, procs, io,
                        customers, coinReqs>>

\* the counter opens with any stock on the shelves
InitSales ==
  /\ store = {}
  /\ nextId = 1
  /\ now = 0
  /\ taxStatus = [t \in Taxes |-> "Pending"]
  /\ orderStatus = [o \in Orders |-> "Pending"]
  /\ last = Done("none", NoCand, "none", 0, <<>>, 0, {})
  /\ procs = [p \in Procs |-> Idle]
  /\ io = IoInit
  /\ customers = [k \in Customers |-> NewCustomer]
  /\ coinReqs = [p \in Procs |-> CoinIdle]
  /\ stock \in [SaleProducts -> 0..MaxStock]
  /\ sales = {}

NextSales == \E items \in SaleItemLists : PostSale(items)

SpecSales == InitSales /\ [][NextSales]_vars

\* C30: a sale creation rejected for insufficient stock of one item leaves
\* the stock of every product as it was and stores no sale.
C30_RejectedSaleChangesNothing ==
  [][\A items \in SaleItemLists :
       (PostSale(items) /\ last'.action = "insufficient_stock")
         => (stock' = stock /\ sales' = sales)]_vars

====
